---- MODULE Spec2Model ----
(***************************************************************************)
(* lab-ctl (packages/lab-controller/lab-controller.py): the student        *)
(* session store, the verification engine and the CLI handlers that drive  *)
(* them.  Every CLI invocation is a short-lived process; the processes     *)
(* share one record file per student and one interaction log.  A process   *)
(* slot p runs one invocation at a time: main() constructs the CLI object  *)
(* (which reads the record), the handler runs, the process exits.          *)
(***************************************************************************)
EXTENDS Integers, Sequences, FiniteSets, TLC

\* ------------------------------------------------------------------ bounds
MaxStarts == 2        \* a start is explored while fewer starts than this are counted
MaxScore == 170       \* a passing verify is explored while the total stays within this
MaxLog == 4           \* a chat is explored while the log stays within this many lines
MaxAttempts == 3      \* a query is explored on records with up to this many attempts

Procs == {"p1", "p2"}                  \* concurrently running CLI processes
Catalog_keeps_L0 == {"L0", "L1", "L2"}  \* a catalog in which L0 still has its lab.json
Catalog == {"L1", "L2"}                \* labs whose lab.json exists
LabIds == Catalog \cup {"L0"}          \* identifiers a student may type
ScriptLabs == {"L1"}                   \* labs whose verify.py exists
PayloadScores == {40, 70, 85}          \* "score" values a verify.py may emit
HintCount(lab_id) == IF lab_id = "L1" THEN 2 ELSE 0    \* len(lab.hints)

\* --------------------------------------------------------------- constants
\* A pass mark of 40.
PassScore_forty == 70 - 30
PassScore == 70
None == "None"
Stamp == "isoformat"

VARIABLES
    disk,       \* the student's record file: [file, rec, size]
    orphan,     \* the processes whose open record file has been unlinked
    log,        \* today's interaction log, a sequence of lines
    pc,         \* pc[p]: where process p stands
    cmd,        \* cmd[p]: the command line of process p, [name, arg]
    data,       \* data[p]: StudentSession.data of process p
    results,    \* results[p]: the results dict of LabVerifier.verify
    outcome,    \* outcome[p]: what the command reported when it ended
    \* history, read by no handler:
    last,       \* the last complete record the file held (none: a new session)
    started,    \* start_lab calls that returned since the record was last discarded
    awarded     \* the scores of the complete_lab calls that returned since then

vars == <<disk, orphan, log, pc, cmd, data, results, outcome, last, started, awarded>>
history == <<last, started, awarded>>

\* ------------------------------------------------------- dicts and lists
EmptyMap == [k \in {} |-> 0]
Get(m, k, default) == IF k \in DOMAIN m THEN m[k] ELSE default
Put(m, k, v) == [x \in (DOMAIN m) \cup {k} |-> IF x = k THEN v ELSE m[x]]
Contains(seq, x) == \E i \in 1..Len(seq) : seq[i] = x
Count(seq, x) == Cardinality({i \in 1..Len(seq) : seq[i] = x})
RECURSIVE SumOver(_, _)
SumOver(m, keys) ==
    IF keys = {} THEN 0
    ELSE LET k == CHOOSE x \in keys : TRUE IN m[k] + SumOver(m, keys \ {k})
Total(m) == SumOver(m, DOMAIN m)

\* -------------------------------------------------------- StudentSession
\* The one student of the model.  lab_start_time = None stands for a dict
\* without that key, which start_lab adds.
StudentId == "student-01"
NewSession ==
    [student_id |-> StudentId, created_at |-> Stamp,
     current_lab |-> None, completed_labs |-> <<>>, attempts |-> EmptyMap,
     score |-> 0, lab_start_time |-> None]

\* The length of json.dump(data, f, indent=2), less the student_id and
\* created_at lines, which are as long in every record.
RECURSIVE Digits(_)
Digits(n) == IF n < 10 THEN 1 ELSE 1 + Digits(n \div 10)
ListBytes(seq) == IF Len(seq) = 0 THEN 2 ELSE 4 + 10 * Len(seq)
DictBytes(m) == IF DOMAIN m = {} THEN 2 ELSE 4 + SumOver([k \in DOMAIN m |-> 12 + Digits(m[k])], DOMAIN m)
Size(d) ==
    4 + ListBytes(d.completed_labs) + DictBytes(d.attempts) + Digits(d.score)
      + (IF d.lab_start_time = None THEN 0 ELSE 50)

\* json.dump(self.data, f): the text of the record, as its tokens.  None is
\* written null, a number as its decimal digits, a list in its order, a
\* dict key by key.
Token(t, v) == [t |-> t, v |-> v]
Punct(c) == <<Token("punct", c)>>
JsonString(x) == <<Token("string", x)>>
RECURSIVE Decimal(_)
Decimal(n) == IF n < 10 THEN <<n>> ELSE Append(Decimal(n \div 10), n % 10)
JsonNumber(n) == <<Token("number", Decimal(n))>>
JsonOptional(x) == IF x = None THEN <<Token("null", "null")>> ELSE JsonString(x)
RECURSIVE Joined(_)
Joined(parts) ==
    IF Len(parts) = 0 THEN <<>>
    ELSE IF Len(parts) = 1 THEN parts[1]
    ELSE parts[1] \o Punct(",") \o Joined(Tail(parts))
Member(key, value) == JsonString(key) \o Punct(":") \o value
JsonList(seq) ==
    Punct("[") \o Joined([i \in 1..Len(seq) |-> JsonString(seq[i])]) \o Punct("]")
RECURSIVE Keys(_)
Keys(set) ==
    IF set = {} THEN <<>>
    ELSE LET k == CHOOSE x \in set : TRUE IN <<k>> \o Keys(set \ {k})
JsonDict(m) ==
    LET keys == Keys(DOMAIN m)
    IN  Punct("{") \o Joined([i \in 1..Len(keys) |-> Member(keys[i], JsonNumber(m[keys[i]]))])
                  \o Punct("}")
\* A dump of the keys of a new session only.
JsonDump_created_keys(d) ==
    Punct("{")
      \o Joined(<<Member("student_id", JsonString(d.student_id)),
                  Member("created_at", JsonString(d.created_at)),
                  Member("current_lab", JsonOptional(d.current_lab)),
                  Member("completed_labs", JsonList(d.completed_labs)),
                  Member("attempts", JsonDict(d.attempts)),
                  Member("score", JsonNumber(d.score))>>)
      \o Punct("}")
JsonDump(d) ==
    Punct("{")
      \o Joined(<<Member("student_id", JsonString(d.student_id)),
                  Member("created_at", JsonString(d.created_at)),
                  Member("current_lab", JsonOptional(d.current_lab)),
                  Member("completed_labs", JsonList(d.completed_labs)),
                  Member("attempts", JsonDict(d.attempts)),
                  Member("score", JsonNumber(d.score))>>
                 \o (IF d.lab_start_time = None THEN <<>>
                     ELSE <<Member("lab_start_time", JsonString(d.lab_start_time))>>))
      \o Punct("}")

\* json.load(f): the value the tokens from position i on spell, and the
\* position after it.
RECURSIVE NumberOf(_)
NumberOf(digits) ==
    IF Len(digits) = 1 THEN digits[1]
    ELSE 10 * NumberOf(SubSeq(digits, 1, Len(digits) - 1)) + digits[Len(digits)]
RECURSIVE ParseValue(_, _), ParseList(_, _, _), ParseDict(_, _, _)
ParseValue(text, i) ==
    IF text[i].t = "null" THEN [val |-> None, next |-> i + 1]
    ELSE IF text[i].t = "string" THEN [val |-> text[i].v, next |-> i + 1]
    ELSE IF text[i].t = "number" THEN [val |-> NumberOf(text[i].v), next |-> i + 1]
    ELSE IF text[i].v = "[" THEN ParseList(text, i + 1, <<>>)
    ELSE ParseDict(text, i + 1, EmptyMap)
ParseList(text, i, seq) ==
    IF text[i].t = "punct" /\ text[i].v = "]" THEN [val |-> seq, next |-> i + 1]
    ELSE IF text[i].t = "punct" /\ text[i].v = "," THEN ParseList(text, i + 1, seq)
    ELSE LET item == ParseValue(text, i) IN ParseList(text, item.next, Append(seq, item.val))
ParseDict(text, i, m) ==
    IF text[i].t = "punct" /\ text[i].v = "}" THEN [val |-> m, next |-> i + 1]
    ELSE IF text[i].t = "punct" /\ text[i].v = "," THEN ParseDict(text, i + 1, m)
    ELSE LET value == ParseValue(text, i + 2)
         IN  ParseDict(text, value.next, Put(m, text[i].v, value.val))
JsonLoad(text) ==
    LET dict == ParseValue(text, 1).val
    IN  [student_id |-> dict["student_id"], created_at |-> dict["created_at"],
         current_lab |-> dict["current_lab"], completed_labs |-> dict["completed_labs"],
         attempts |-> dict["attempts"], score |-> dict["score"],
         lab_start_time |-> Get(dict, "lab_start_time", None)]

\* The record file: absent; truncated by open(.., 'w') and not yet written;
\* holding a dumped record; or garbled: a record dumped over a longer one
\* that another writer had dumped since this writer's open, the longer
\* one's tail still behind it.  A written file is kept as rec, the dict
\* json.load makes of the text json.dump wrote, and as the size of that text.
FileAbsent == [file |-> "absent", rec |-> NewSession, size |-> 0]
FileTruncated == [file |-> "truncated", rec |-> NewSession, size |-> 0]
FileHolding(d) == [file |-> "written", rec |-> JsonLoad(JsonDump(d)), size |-> Size(d)]
FileGarbled(n) == [file |-> "garbled", rec |-> NewSession, size |-> n]

\* json.load of an empty file, or of one with a tail after the object, raises
\* JSONDecodeError.
LoadRaises(f) == f.file \in {"truncated", "garbled"}
load_or_create(f) == IF f.file = "written" THEN f.rec ELSE NewSession

\* open(session_file, 'w'): the file is created or cut to nothing.
OpenForWriting(f) == FileTruncated
\* A dump that is still in the writer's buffer when save() returns.
Dump_buffered(f, d) == f

\* json.dump and close on a file opened by OpenForWriting: the bytes land at
\* offset 0 of whatever the file holds by then.
Dump(f, d) == IF Size(d) >= f.size THEN FileHolding(d) ELSE FileGarbled(f.size)

\* start_lab that counts a lab's attempts from 0.
start_lab_from_zero(d, lab_id) ==
    [d EXCEPT !.current_lab = lab_id,
              !.attempts = Put(@, lab_id, Get(@, lab_id, 0 - 1) + 1),
              !.lab_start_time = Stamp]

\* start_lab without the attempt count.
start_lab_uncounted(d, lab_id) ==
    [d EXCEPT !.current_lab = lab_id, !.lab_start_time = Stamp]

\* start_lab that sets the count to 1 instead of adding 1.
start_lab_first_attempt(d, lab_id) ==
    [d EXCEPT !.current_lab = lab_id,
              !.attempts = Put(@, lab_id, 1),
              !.lab_start_time = Stamp]

start_lab(d, lab_id) ==
    [d EXCEPT !.current_lab = lab_id,
              !.attempts = Put(@, lab_id, Get(@, lab_id, 0) + 1),
              !.lab_start_time = Stamp]

\* complete_lab that leaves the lab active.
complete_lab_keeps_active(d, lab_id, score) ==
    [d EXCEPT !.completed_labs = IF Contains(@, lab_id) THEN @ ELSE Append(@, lab_id),
              !.score = @ + score]

\* complete_lab that awards a lab's score only the first time.
complete_lab_award_once(d, lab_id, score) ==
    [d EXCEPT !.completed_labs = IF Contains(@, lab_id) THEN @ ELSE Append(@, lab_id),
              !.score = IF Contains(d.completed_labs, lab_id) THEN @ ELSE @ + score,
              !.current_lab = None]

\* complete_lab that appends without looking.
complete_lab_append(d, lab_id, score) ==
    [d EXCEPT !.completed_labs = Append(@, lab_id),
              !.score = @ + score,
              !.current_lab = None]

complete_lab(d, lab_id, score) ==
    [d EXCEPT !.completed_labs = IF Contains(@, lab_id) THEN @ ELSE Append(@, lab_id),
              !.score = @ + score,
              !.current_lab = None]

\* ----------------------------------------------------------- LabVerifier
\* The results dict LabVerifier.verify starts from.  kind and typed are not
\* keys of the dict: kind tells which way verify went, typed = FALSE tells
\* that a value of the dict is not of the type cmd_verify uses it as (an
\* objectives value that is not a list, a score that is not a number).
NoResults ==
    [kind |-> "none", lab_id |-> None, score |-> 0, typed |-> TRUE,
     objectives_met |-> <<>>, objectives_failed |-> <<>>, feedback |-> <<>>]
\* results = {"lab_id": self.lab.lab_id, ...}: the results of a run for a
\* lab carry the lab's id, unless the payload's own "lab_id" has replaced it.
ResultsFor(lab_id, run) == [run EXCEPT !.lab_id = IF @ = None THEN lab_id ELSE @]

\* The texts of the feedback entries.
\* A timeout reported in the words of a parse error.
TimeoutText_as_parse == "Verification error: Expecting value: line 1 column 1 (char 0)"
TimeoutText == "Verification error: Command '['python3', 'verify.py']' timed out after 30 seconds"
ExitText == "Verification failed: stderr"
ParseText == "Verification error: Expecting value: line 1 column 1 (char 0)"
UpdateText == "Verification error: cannot convert dictionary update sequence element #0 to a sequence"
NoScriptText == "No automated verification available"

\* results["feedback"].append(text), on the way kind.
Failure(kind, text) == [NoResults EXCEPT !.kind = kind, !.feedback = Append(@, text)]

\* results.update(verify_data): the keys the payload has replace the
\* defaults, the others stay.
Update(res, verify_data) ==
    [k \in DOMAIN res |-> IF k \in DOMAIN verify_data THEN verify_data[k] ELSE res[k]]
Payload(kind, verify_data) == Update([NoResults EXCEPT !.kind = kind], verify_data)

\* The payload a verify.py written to the contract prints for a score.
Report_of(s) ==
    [objectives_met |-> IF s >= 70 THEN <<"o1", "o2">> ELSE <<"o1">>,
     objectives_failed |-> IF s >= 70 THEN <<>> ELSE <<"o2">>,
     score |-> s,
     feedback |-> <<"checked">>]

\* What running verify.py can come to: it does not exit in 30 s, it exits
\* non-zero, it exits 0 with output json.loads rejects, or it exits 0 with a
\* payload that results.update() merges ("mistyped": with a score that is
\* a string).
ScriptRuns ==
    {Failure("timeout", TimeoutText), Failure("nonzero", ExitText), Failure("badjson", ParseText)}
    \cup {Payload("payload", Report_of(s)) : s \in PayloadScores}
    \cup {Payload("mistyped", [score |-> 85, typed |-> FALSE])}

\* What else it can come to: output that is JSON but not an object, an
\* empty object, an object without a score, scores outside 0..100, a
\* passing payload with the "lab_id" of another lab.
OddRuns ==
    {Failure("notobject", UpdateText)}
    \cup {Payload("partial", [k \in {} |-> 0])}
    \cup {Payload("partial", [objectives_met |-> <<"o1", "o2">>])}
    \cup {Payload("payload", Report_of(s)) : s \in {0 - 5, 150}}
    \cup {Update(Payload("payload", Report_of(85)), [lab_id |-> "L2"])}

\* A result that invents a pass.
NoScript_passing == [Failure("noscript", NoScriptText) EXCEPT !.score = 100]
NoScript == Failure("noscript", NoScriptText)

\* ------------------------------------------------------------ process state
NoCommand == [name |-> "none", arg |-> None]

Init ==
    /\ disk = FileAbsent
    /\ orphan = {}
    /\ last = NewSession
    /\ started = 0
    /\ awarded = 0
    /\ log = <<>>
    /\ pc = [p \in Procs |-> "idle"]
    /\ cmd = [p \in Procs |-> NoCommand]
    /\ data = [p \in Procs |-> NewSession]
    /\ results = [p \in Procs |-> NoResults]
    /\ outcome = [p \in Procs |-> "none"]

\* The command ends and the process exits: its command line and its session
\* object are gone, what it printed (the report, the verifier's results)
\* stays on the terminal until the slot runs the next invocation.
Return(p, report) ==
    /\ pc' = [pc EXCEPT ![p] = "done"]
    /\ outcome' = [outcome EXCEPT ![p] = report]
    /\ data' = [data EXCEPT ![p] = NewSession]
    /\ cmd' = [cmd EXCEPT ![p] = NoCommand]

Goto(p, label, d) ==
    /\ pc' = [pc EXCEPT ![p] = label]
    /\ outcome' = [outcome EXCEPT ![p] = "none"]
    /\ data' = [data EXCEPT ![p] = d]
    /\ UNCHANGED cmd

\* main() has read its command line and the handler goes on to its next step.
Enter(p, name, arg, label, d) ==
    /\ pc' = [pc EXCEPT ![p] = label]
    /\ outcome' = [outcome EXCEPT ![p] = "none"]
    /\ data' = [data EXCEPT ![p] = d]
    /\ cmd' = [cmd EXCEPT ![p] = [name |-> name, arg |-> arg]]

\* main(), mode student: a new process; StudentCLI() builds the
\* StudentSession, which reads the record file.  handled is the rest of the
\* command, given the session read, up to its next access to the file or
\* the log.
StudentCLI(p, handled) ==
    /\ IF LoadRaises(disk)
       THEN /\ Return(p, "traceback")
            /\ results' = [results EXCEPT ![p] = NoResults]
            /\ UNCHANGED log
       ELSE handled
    /\ UNCHANGED <<disk, orphan, history>>

\* The starts and the awards of the calls that have not returned yet.
StartsInFlight ==
    Cardinality({q \in Procs : cmd[q].name = "start" /\ pc[q] \in {"start_lab", "save"}})
AwardsInFlight ==
    SumOver([q \in Procs |-> IF cmd[q].name = "verify" /\ pc[q] = "save"
                             THEN results[q].score ELSE 0], Procs)

\* cmd_start up to start_lab: an unknown lab returns.
cmd_start(p, lab_id) ==
    /\ pc[p] \in {"idle", "done"}
    /\ LET Handler(d) ==
               /\ results' = [results EXCEPT ![p] = NoResults]
               /\ UNCHANGED log
               /\ IF lab_id \notin Catalog
                  THEN Return(p, "not_found")
                  ELSE Enter(p, "start", lab_id, "start_lab", d)
       IN  /\ Total(load_or_create(disk).attempts) < MaxStarts
           /\ started + StartsInFlight < MaxStarts
           /\ StudentCLI(p, Handler(load_or_create(disk)))

\* session.start_lab: the session is mutated and save() opens the record
\* file for writing.
session_start_lab(p) ==
    /\ pc[p] = "start_lab"
    /\ disk' = OpenForWriting(disk)
    /\ Goto(p, "save", start_lab(data[p], cmd[p].arg))
    /\ UNCHANGED <<orphan, log, results, history>>

\* save(), after the open: json.dump writes the whole record and the file is
\* closed; the mutating call returns and the handler prints its report.  A
\* file unlinked since the open takes the bytes with it.
save(p) ==
    /\ pc[p] = "save"
    /\ IF p \in orphan
       THEN UNCHANGED <<disk, history>>
       ELSE /\ disk' = Dump(disk, data[p])
            /\ last' = IF Dump(disk, data[p]).file = "written" THEN data[p] ELSE last
            /\ started' = IF cmd[p].name = "start" THEN started + 1 ELSE started
            /\ awarded' = IF cmd[p].name = "verify" THEN awarded + results[p].score ELSE awarded
    /\ orphan' = orphan \ {p}
    /\ Return(p, IF cmd[p].name = "start" THEN "started" ELSE "completed")
    /\ UNCHANGED <<log, results>>

\* What the handler has printed about the mutating call when save() runs:
\* cmd_verify prints "Lab completed!" before it calls complete_lab, cmd_start
\* prints "Lab started" after start_lab has returned.
ReportBeforeSave(name) == IF name = "verify" THEN "completed" ELSE "none"

\* save(), after the open: json.dump or the close raises OSError (no space
\* left on the device); the file stays as the open left it and the
\* exception ends the command.
save_raises(p) ==
    /\ pc[p] = "save"
    /\ orphan' = orphan \ {p}
    /\ Return(p, IF ReportBeforeSave(cmd[p].name) = "completed"
                 THEN "completed_traceback" ELSE "traceback")
    /\ UNCHANGED <<disk, log, results, history>>

\* A report that completes the lab whatever the score.
Report_any_score(p, d, res) ==
    IF ~res.typed
    THEN /\ Return(p, "traceback")
         /\ UNCHANGED disk
    ELSE /\ disk' = OpenForWriting(disk)
         /\ Goto(p, "save", complete_lab(d, d.current_lab, res.score))

\* A report that completes the lab the results name.
Report_results_lab(p, d, res) ==
    IF ~res.typed
    THEN /\ Return(p, "traceback")
         /\ UNCHANGED disk
    ELSE IF res.score >= PassScore
    THEN /\ disk' = OpenForWriting(disk)
         /\ Goto(p, "save", complete_lab(d, res.lab_id, res.score))
    ELSE /\ Return(p, "retry")
         /\ UNCHANGED disk

\* cmd_verify from the verifier's results on: they are printed (a payload of
\* the wrong types raises there), and a score of at least 70 completes the
\* lab: complete_lab mutates the session and save() opens the record file.
Report(p, d, res) ==
    IF ~res.typed
    THEN /\ Return(p, "traceback")
         /\ UNCHANGED disk
    ELSE IF res.score >= PassScore
    THEN /\ disk' = OpenForWriting(disk)
         /\ Goto(p, "save", complete_lab(d, d.current_lab, res.score))
    ELSE /\ Return(p, "retry")
         /\ UNCHANGED disk

\* cmd_verify without its first check: a session without an active lab is
\* looked up in the catalog as any other.
cmd_verify_unguarded(p) ==
    /\ pc[p] \in {"idle", "done"}
    /\ LET Handler(d) ==
               /\ UNCHANGED log
               /\ IF d.current_lab \notin Catalog
                  THEN /\ Return(p, "not_found")
                       /\ results' = [results EXCEPT ![p] = NoResults]
                  ELSE IF d.current_lab \in ScriptLabs
                  THEN /\ Enter(p, "verify", None, "verify", d)
                       /\ results' = [results EXCEPT ![p] = NoResults]
                  ELSE /\ Return(p, "retry")
                       /\ results' = [results EXCEPT ![p] = ResultsFor(d.current_lab, NoScript)]
       IN  StudentCLI(p, Handler(load_or_create(disk)))

\* cmd_verify up to the verifier: no active lab, or an active lab that is
\* gone, returns; a lab with verify.py has it spawned; a lab without one
\* gets the verifier's default results at once, which are reported.
cmd_verify(p) ==
    /\ pc[p] \in {"idle", "done"}
    /\ LET Handler(d) ==
               /\ UNCHANGED log
               /\ IF d.current_lab = None
                  THEN /\ Return(p, "no_active")
                       /\ results' = [results EXCEPT ![p] = NoResults]
                  ELSE IF d.current_lab \notin Catalog
                  THEN /\ Return(p, "not_found")
                       /\ results' = [results EXCEPT ![p] = NoResults]
                  ELSE IF d.current_lab \in ScriptLabs
                  THEN /\ Enter(p, "verify", None, "verify", d)
                       /\ results' = [results EXCEPT ![p] = NoResults]
                  ELSE /\ Return(p, "retry")
                       /\ results' = [results EXCEPT ![p] = ResultsFor(d.current_lab, NoScript)]
       IN  StudentCLI(p, Handler(load_or_create(disk)))

\* LabVerifier.verify returns with what the script's run came to, and
\* cmd_verify reports it.
verify_run(p, run) ==
    /\ pc[p] = "verify"
    /\ (run.typed /\ run.score >= PassScore) =>
          /\ data[p].score + run.score <= MaxScore
          /\ awarded + AwardsInFlight + run.score <= MaxScore
    /\ results' = [results EXCEPT ![p] = ResultsFor(data[p].current_lab, run)]
    /\ Report(p, data[p], ResultsFor(data[p].current_lab, run))
    /\ UNCHANGED <<orphan, log, history>>

verify(p) == \E run \in ScriptRuns : verify_run(p, run)

\* The index of the hint for an attempt number, of k hints, without the clamp.
hint_index_unclamped(attempt, k) == attempt - 1
\* hint_index = min(attempt - 1, len(lab.hints) - 1)
hint_index(attempt, k) == IF attempt - 1 <= k - 1 THEN attempt - 1 ELSE k - 1
\* lab.hints[index] and the line printed above it; a list of k items takes
\* the indices -k..k-1, any other raises IndexError.
HintLine(index, k) ==
    IF index \in (0 - k)..(k - 1) THEN "Hint #" \o ToString(index + 1) ELSE "traceback"

\* cmd_hint: a query; nothing is written.
cmd_hint(p) ==
    /\ pc[p] \in {"idle", "done"}
    /\ LET Handler(d) ==
               /\ results' = [results EXCEPT ![p] = NoResults]
               /\ UNCHANGED log
               /\ IF d.current_lab = None
                  THEN Return(p, "no_active_hint")
                  ELSE IF d.current_lab \notin Catalog \/ HintCount(d.current_lab) = 0
                  THEN Return(p, "no_hints")
                  ELSE Return(p, HintLine(hint_index(Get(d.attempts, d.current_lab, 1),
                                                      HintCount(d.current_lab)),
                                           HintCount(d.current_lab)))
       IN  StudentCLI(p, Handler(load_or_create(disk)))

\* AgentController._log: one line is appended to today's log file.
LogLine(tag, message) == [tag |-> tag, message |-> message]
\* A log file opened with 'w'.
Write_truncating(l, line) == <<line>>
\* open(log_file, 'a') and one f.write of the whole line, flushed by the
\* close: one write at the end of the file as it is then.
Write(l, line) == Append(l, line)
\* Every instruction logged as the red agent's.
AgentTag_red(agent) == "RED"
AgentTag(agent) == IF agent = "red" THEN "RED" ELSE "BLUE"
\* Lines the running chats have still to append.
PendingLines == Cardinality({q \in Procs : pc[q] = "chat"})

\* The agent names a command line may give, and str.lower() on them.
AgentNames == {"red", "blue", "RED", "Blue", "green", "redteam"}
Lower(agent) ==
    IF agent = "RED" THEN "red" ELSE IF agent = "Blue" THEN "blue" ELSE agent

\* A cmd_chat whose second branch is an else: every agent but red is blue.
chat_with_else_blue(p, agent) ==
    /\ pc[p] \in {"idle", "done"}
    /\ LET Handler(d) ==
               /\ results' = [results EXCEPT ![p] = NoResults]
               /\ log' = Write(log, LogLine(AgentTag(Lower(agent)), "instruction"))
               /\ Enter(p, "chat", IF Lower(agent) = "red" THEN "red" ELSE "blue", "chat", d)
       IN  /\ Len(log) + PendingLines + 2 <= MaxLog
           /\ StudentCLI(p, Handler(load_or_create(disk)))

\* cmd_chat up to the model call: an agent that is neither red nor blue
\* when lowered returns; otherwise send_to_*_agent logs the instruction and
\* posts it to the model.
chat_with(p, agent) ==
    /\ pc[p] \in {"idle", "done"}
    /\ LET Handler(d) ==
               /\ results' = [results EXCEPT ![p] = NoResults]
               /\ IF Lower(agent) \notin {"red", "blue"}
                  THEN /\ Return(p, "unknown_agent")
                       /\ UNCHANGED log
                  ELSE /\ log' = Write(log, LogLine(AgentTag(Lower(agent)), "instruction"))
                       /\ Enter(p, "chat", Lower(agent), "chat", d)
       IN  /\ Len(log) + PendingLines + 2 <= MaxLog
           /\ StudentCLI(p, Handler(load_or_create(disk)))

cmd_chat(p) == \E agent \in AgentNames : chat_with(p, agent)

\* An OllamaClient.chat without its except clause: a failed call ends the
\* command before the response is logged.
chat_raising(p) ==
    /\ pc[p] = "chat"
    /\ \E reply \in {"reply", "Error communicating"} :
        /\ log' = IF reply = "reply"
                  THEN Write(log, LogLine(AgentTag(cmd[p].arg) \o "_RESPONSE", reply))
                  ELSE log
        /\ Return(p, IF reply = "reply" THEN "chatted" ELSE "traceback")
    /\ UNCHANGED <<disk, orphan, results, history>>

\* A chat that saves the session it holds when the reply is in.
chat_saving(p) ==
    /\ pc[p] = "chat"
    /\ log' = Write(log, LogLine(AgentTag(cmd[p].arg) \o "_RESPONSE", "reply"))
    /\ disk' = Dump(OpenForWriting(disk), data[p])
    /\ Return(p, "chatted")
    /\ UNCHANGED <<orphan, results, history>>

\* OllamaClient.chat returns the model's reply, or the error text when the
\* call failed; the reply is logged and printed.
chat(p) ==
    /\ pc[p] = "chat"
    /\ \E reply \in {"reply", "Error communicating"} :
        /\ log' = Write(log, LogLine(AgentTag(cmd[p].arg) \o "_RESPONSE", reply))
        /\ Return(p, IF reply = "reply" THEN "chatted" ELSE "chat_error")
    /\ UNCHANGED <<disk, orphan, results, history>>

\* cmd_status and cmd_list: queries on the session StudentCLI() has read.
cmd_status(p) ==
    /\ pc[p] \in {"idle", "done"}
    /\ StudentCLI(p, /\ Return(p, "status")
                     /\ results' = [results EXCEPT ![p] = NoResults]
                     /\ UNCHANGED log)

cmd_list(p) ==
    /\ pc[p] \in {"idle", "done"}
    /\ StudentCLI(p, /\ Return(p, "listed")
                     /\ results' = [results EXCEPT ![p] = NoResults]
                     /\ UNCHANGED log)

\* main() with an unknown mode, an unknown command or a command short of an
\* argument: in mode student StudentCLI() is built first, then the message
\* is printed and main returns.
usage(p) ==
    /\ pc[p] \in {"idle", "done"}
    /\ \E mode \in {"student", "instructor", "other"} :
          Return(p, IF mode = "student" /\ LoadRaises(disk) THEN "traceback" ELSE "usage")
    /\ results' = [results EXCEPT ![p] = NoResults]
    /\ UNCHANGED <<disk, orphan, log, history>>

\* A monitor that saves the session it was given for a student without a
\* record.
cmd_monitor_creating(p) ==
    /\ pc[p] \in {"idle", "done"}
    /\ Return(p, IF LoadRaises(disk) THEN "traceback" ELSE "monitored")
    /\ disk' = IF disk.file = "absent" THEN FileHolding(NewSession) ELSE disk
    /\ results' = [results EXCEPT ![p] = NoResults]
    /\ UNCHANGED <<orphan, log, history>>

\* cmd_grade: as cmd_monitor, without the log.
cmd_grade(p) ==
    /\ pc[p] \in {"idle", "done"}
    /\ Return(p, IF LoadRaises(disk) THEN "traceback" ELSE "graded")
    /\ results' = [results EXCEPT ![p] = NoResults]
    /\ UNCHANGED <<disk, orphan, log, history>>

\* cmd_stats: json.load of every record file in the state directory.
cmd_stats(p) ==
    /\ pc[p] \in {"idle", "done"}
    /\ Return(p, IF LoadRaises(disk) THEN "traceback"
                 ELSE IF disk.file = "absent" THEN "no_data" ELSE "stats")
    /\ results' = [results EXCEPT ![p] = NoResults]
    /\ UNCHANGED <<disk, orphan, log, history>>

\* main(), mode instructor, cmd_monitor: StudentSession(student_id) reads
\* the record file, the progress and the last lines of today's log are
\* printed.
cmd_monitor(p) ==
    /\ pc[p] \in {"idle", "done"}
    /\ Return(p, IF LoadRaises(disk) THEN "traceback" ELSE "monitored")
    /\ results' = [results EXCEPT ![p] = NoResults]
    /\ UNCHANGED <<disk, orphan, log, history>>

\* main(), mode instructor, cmd_reset up to the unlink: anything but "yes"
\* cancels; otherwise StudentSession(student_id) reads the record file.
cmd_reset(p) ==
    /\ pc[p] \in {"idle", "done"}
    /\ \E confirm \in {"yes", "no"} :
        IF confirm # "yes"
        THEN Return(p, "cancelled")
        ELSE IF LoadRaises(disk)
        THEN Return(p, "traceback")
        ELSE Enter(p, "reset", confirm, "unlink", load_or_create(disk))
    /\ results' = [results EXCEPT ![p] = NoResults]
    /\ UNCHANGED <<disk, orphan, log, history>>

\* session_file.unlink(missing_ok=True): the name is gone; a writer that has
\* the file open keeps writing to a file no reader will find.
unlink(p) ==
    /\ pc[p] = "unlink"
    /\ disk' = FileAbsent
    /\ orphan' = orphan \cup {q \in Procs : pc[q] = "save"}
    /\ last' = NewSession
    /\ started' = 0
    /\ awarded' = 0
    /\ Return(p, "reset")
    /\ UNCHANGED <<log, results>>

\* The process is killed wherever it stands; the record file stays as the
\* process left it.
Crash(p) ==
    /\ pc[p] \notin {"idle", "done"}
    /\ orphan' = orphan \ {p}
    /\ Return(p, "killed")
    /\ UNCHANGED <<disk, log, results, history>>

\* One step of process p.
Step(p) ==
    \/ \E lab_id \in LabIds : cmd_start(p, lab_id)
    \/ session_start_lab(p)
    \/ cmd_verify(p)
    \/ verify(p)
    \/ save(p)
    \/ cmd_hint(p)
    \/ cmd_reset(p)
    \/ unlink(p)
    \/ Crash(p)

\* Any number of terminals: the processes interleave step by step.
Next == \E p \in Procs : Step(p)

Spec == Init /\ [][Next]_vars

\* One call sequence: a command is run when the one before it has ended.
Quiet(p) == \A q \in Procs \ {p} : pc[q] \in {"idle", "done"}
NextSeq ==
    \E p \in Procs :
        \/ Quiet(p) /\ \E lab_id \in LabIds : cmd_start(p, lab_id)
        \/ Quiet(p) /\ session_start_lab(p)
        \/ Quiet(p) /\ cmd_verify(p)
        \/ Quiet(p) /\ verify(p)
        \/ Quiet(p) /\ save(p)
        \/ Quiet(p) /\ cmd_hint(p)
        \/ Quiet(p) /\ cmd_reset(p)
        \/ Quiet(p) /\ unlink(p)
        \/ Quiet(p) /\ Crash(p)

SpecSeq == Init /\ [][NextSeq]_vars

\* One call sequence of a student who may have started lab L0 when it was
\* in the labs directory; its lab.json has been removed since.
GoneRecord ==
    [NewSession EXCEPT !.current_lab = "L0", !.attempts = Put(EmptyMap, "L0", 1),
                       !.lab_start_time = Stamp]
InitCatalog ==
    /\ disk \in {FileAbsent, FileHolding(GoneRecord)}
    /\ orphan = {}
    /\ last = load_or_create(disk)
    /\ started = Total(last.attempts)
    /\ awarded = 0
    /\ log = <<>>
    /\ pc = [p \in Procs |-> "idle"]
    /\ cmd = [p \in Procs |-> NoCommand]
    /\ data = [p \in Procs |-> NewSession]
    /\ results = [p \in Procs |-> NoResults]
    /\ outcome = [p \in Procs |-> "none"]
NextCatalog ==
    \E p \in Procs :
        \/ Quiet(p) /\ \E lab_id \in LabIds : cmd_start(p, lab_id)
        \/ Quiet(p) /\ session_start_lab(p)
        \/ Quiet(p) /\ cmd_verify(p)
        \/ Quiet(p) /\ verify(p)
        \/ Quiet(p) /\ save(p)
        \/ Quiet(p) /\ cmd_hint(p)

SpecCatalog == InitCatalog /\ [][NextCatalog]_vars

\* Chats from any number of terminals at a time, between the commands of
\* one call sequence.
NoneInRecord(p) == \A q \in Procs \ {p} : pc[q] \in {"idle", "done", "chat"}
NextChat ==
    \E p \in Procs :
        \/ NoneInRecord(p) /\ cmd_chat(p)
        \/ chat(p)
        \/ Quiet(p) /\ \E lab_id \in LabIds : cmd_start(p, lab_id)
        \/ Quiet(p) /\ session_start_lab(p)
        \/ Quiet(p) /\ cmd_verify(p)
        \/ Quiet(p) /\ verify(p)
        \/ Quiet(p) /\ save(p)
        \/ Quiet(p) /\ cmd_monitor(p)
        \/ Quiet(p) /\ cmd_reset(p)
        \/ Quiet(p) /\ unlink(p)

SpecChat == Init /\ [][NextChat]_vars

\* The queries, on the record files a student's starts and passing verifies
\* leave: none, a lab active after n starts, a lab completed after n starts,
\* and the file a save that was killed after its open() leaves.
Attempted(lab_id, n, s) ==
    [NewSession EXCEPT !.current_lab = IF s = 0 THEN lab_id ELSE None,
                       !.completed_labs = IF s = 0 THEN <<>> ELSE <<lab_id>>,
                       !.attempts = Put(EmptyMap, lab_id, n),
                       !.score = s,
                       !.lab_start_time = Stamp]
InitQuery ==
    /\ disk \in {FileAbsent, FileTruncated}
            \cup {FileHolding(Attempted(lab_id, n, 0)) : lab_id \in Catalog, n \in 1..MaxAttempts}
            \cup {FileHolding(Attempted(lab_id, n, 85)) : lab_id \in ScriptLabs, n \in 1..MaxAttempts}
    /\ orphan = {}
    /\ last = load_or_create(disk)
    /\ started = Total(last.attempts)
    /\ awarded = last.score
    /\ log \in {<<>>, <<LogLine("RED", "instruction"), LogLine("RED_RESPONSE", "reply")>>}
    /\ pc = [p \in Procs |-> "idle"]
    /\ cmd = [p \in Procs |-> NoCommand]
    /\ data = [p \in Procs |-> NewSession]
    /\ results = [p \in Procs |-> NoResults]
    /\ outcome = [p \in Procs |-> "none"]
NextQuery ==
    \E p \in Procs :
        \/ cmd_hint(p)
        \/ cmd_status(p)
        \/ cmd_list(p)
        \/ cmd_monitor(p)
        \/ cmd_grade(p)
        \/ cmd_stats(p)
        \/ usage(p)

SpecQuery == InitQuery /\ [][NextQuery]_vars

\* One call sequence on a device that may run out of space.
NextStore ==
    \E p \in Procs :
        \/ Quiet(p) /\ \E lab_id \in LabIds : cmd_start(p, lab_id)
        \/ Quiet(p) /\ session_start_lab(p)
        \/ Quiet(p) /\ cmd_verify(p)
        \/ Quiet(p) /\ verify(p)
        \/ Quiet(p) /\ save(p)
        \/ Quiet(p) /\ save_raises(p)

SpecStore == Init /\ [][NextStore]_vars

\* One call sequence of a student whose verify.py may print anything.
verify_any(p) == \E run \in ScriptRuns \cup OddRuns : verify_run(p, run)
NextVerifier ==
    \E p \in Procs :
        \/ Quiet(p) /\ \E lab_id \in LabIds : cmd_start(p, lab_id)
        \/ Quiet(p) /\ session_start_lab(p)
        \/ Quiet(p) /\ cmd_verify(p)
        \/ Quiet(p) /\ verify_any(p)
        \/ Quiet(p) /\ save(p)
        \/ Quiet(p) /\ Crash(p)

SpecVerifier == Init /\ [][NextVerifier]_vars

\* subprocess.run(timeout=30) returns or raises within its bound, and the
\* process that runs it is scheduled.
FairVerifier == SpecVerifier /\ \A p \in Procs : WF_vars(Quiet(p) /\ verify_any(p))

\* ------------------------------------------------------------ agent tools
\* Text is a sequence of characters.  The first position of text holding one
\* of chars, or 0; text.split(sep); text.startswith(prefix).
First(text, chars) ==
    IF \E i \in 1..Len(text) : text[i] \in chars
    THEN CHOOSE i \in 1..Len(text) :
             text[i] \in chars /\ \A j \in 1..(i - 1) : text[j] \notin chars
    ELSE 0
RECURSIVE Split(_, _)
Split(text, sep) ==
    LET i == First(text, {sep})
    IN  IF i = 0 THEN <<text>>
        ELSE <<SubSeq(text, 1, i - 1)>> \o Split(SubSeq(text, i + 1, Len(text)), sep)
StartsWith(text, prefix) ==
    Len(prefix) <= Len(text) /\ SubSeq(text, 1, Len(prefix)) = prefix
UpperCase == <<"A", "B", "C", "D", "E", "F", "G", "H", "I", "J", "K", "L", "M", "N", "O", "P", "Q", "R", "S", "T", "U", "V", "W", "X", "Y", "Z">>
LowerCase == <<"a", "b", "c", "d", "e", "f", "g", "h", "i", "j", "k", "l", "m", "n", "o", "p", "q", "r", "s", "t", "u", "v", "w", "x", "y", "z">>
DigitChars == {ToString(d) : d \in 0..9}
DigitValue(c) == CHOOSE d \in 0..9 : ToString(d) = c
LowerChar(c) ==
    IF \E i \in 1..26 : UpperCase[i] = c
    THEN LowerCase[CHOOSE i \in 1..26 : UpperCase[i] = c]
    ELSE c
LowerText(text) == [i \in 1..Len(text) |-> LowerChar(text[i])]

\* str(n) and the dotted text of four octets.
DecimalText(n) == [i \in 1..Len(Decimal(n)) |-> ToString(Decimal(n)[i])]
Dotted(quad) ==
    DecimalText(quad[1]) \o <<".">> \o DecimalText(quad[2]) \o <<".">>
        \o DecimalText(quad[3]) \o <<".">> \o DecimalText(quad[4])

\* ipaddress.ip_address(text): an IPv4 address for four octets in decimal,
\* each of one to three digits, without a leading zero, at most 255; an IPv6
\* address for the IPv6 texts; otherwise ValueError (version 0).
NotAnAddress == [version |-> 0, packed |-> <<>>]
ParseOctet(part) ==
    IF \/ Len(part) \notin 1..3
       \/ \E i \in 1..Len(part) : part[i] \notin DigitChars
       \/ (Len(part) > 1 /\ part[1] = "0")
    THEN 0 - 1
    ELSE LET n == NumberOf([i \in 1..Len(part) |-> DigitValue(part[i])])
         IN  IF n > 255 THEN 0 - 1 ELSE n
V6Texts == {<<":", ":", "1">>, <<":", ":", "f", "f", "f", "f", ":", "1", "0", ".", "0", ".", "0", ".", "5">>}
ip_address(text) ==
    IF First(text, {":"}) # 0
    THEN IF text \in V6Texts THEN [version |-> 6, packed |-> <<>>] ELSE NotAnAddress
    ELSE LET parts == Split(text, ".")
         IN  IF Len(parts) # 4 \/ \E i \in 1..Len(parts) : ParseOctet(parts[i]) < 0
             THEN NotAnAddress
             ELSE [version |-> 4, packed |-> [i \in 1..4 |-> ParseOctet(parts[i])]]
\* A lab network of 10.0.0.0/8.
InLabNetwork_slash8(ip) == ip.version = 4 /\ ip.packed[1] = 10
\* ip in ipaddress.ip_network("10.0.0.0/24")
InLabNetwork(ip) == ip.version = 4 /\ SubSeq(ip.packed, 1, 3) = <<10, 0, 0>>
HostAddress == [version |-> 4, packed |-> <<10, 0, 0, 1>>]

\* The keyword arguments of a call: the text given, if one is.
Given(text) == [given |-> TRUE, text |-> text]
Missing == [given |-> FALSE, text |-> <<>>]

\* PortScannerTool.validate: what it returns or raises.
ScanErrors ==
    {"ValueError: Target is required",
     "ValueError: Invalid target: does not appear to be an IPv4 or IPv6 address",
     "ValueError: Invalid target: Target is outside lab network (10.0.0.0/24)",
     "ValueError: Invalid target: Cannot scan host system"}
PortScannerTool_validate(kwargs) ==
    IF ~kwargs.given \/ kwargs.text = <<>>
    THEN "ValueError: Target is required"
    ELSE LET ip == ip_address(kwargs.text)
         IN  IF ip = NotAnAddress
             THEN "ValueError: Invalid target: does not appear to be an IPv4 or IPv6 address"
             ELSE IF ~InLabNetwork(ip)
             THEN "ValueError: Invalid target: Target is outside lab network (10.0.0.0/24)"
             ELSE IF ip = HostAddress
             THEN "ValueError: Invalid target: Cannot scan host system"
             ELSE "True"

\* urllib.parse.urlparse(url): the scheme, lowered, when the text before the
\* first ":" is a letter followed by scheme characters; the netloc when "//"
\* follows, up to the first of "/", "?", "#"; the hostname, lowered: the
\* netloc after its last "@", up to its first ":" or between its brackets,
\* <<>> standing for None.  A netloc with one bracket only raises ValueError.
SchemeChars ==
    {UpperCase[i] : i \in 1..26} \cup {LowerCase[i] : i \in 1..26} \cup DigitChars
        \cup {"+", "-", "."}
RECURSIVE AfterLast(_, _)
AfterLast(text, c) ==
    LET i == First(text, {c})
    IN  IF i = 0 THEN text ELSE AfterLast(SubSeq(text, i + 1, Len(text)), c)
Before(text, chars) ==
    LET i == First(text, chars) IN IF i = 0 THEN text ELSE SubSeq(text, 1, i - 1)
urlparse(url) ==
    LET colon == First(url, {":"})
        schemed == /\ colon > 1
                   /\ url[1] \in SchemeChars \ (DigitChars \cup {"+", "-", "."})
                   /\ \A i \in 1..(colon - 1) : url[i] \in SchemeChars
        scheme == IF schemed THEN LowerText(SubSeq(url, 1, colon - 1)) ELSE <<>>
        rest == IF schemed THEN SubSeq(url, colon + 1, Len(url)) ELSE url
        netloc == IF StartsWith(rest, <<"/", "/">>)
                  THEN Before(SubSeq(rest, 3, Len(rest)), {"/", "?", "#"})
                  ELSE <<>>
        hostinfo == AfterLast(netloc, "@")
        hostname == IF StartsWith(hostinfo, <<"[">>)
                    THEN Before(SubSeq(hostinfo, 2, Len(hostinfo)), {"]"})
                    ELSE Before(hostinfo, {":"})
    IN  [raises |-> (First(netloc, {"["}) # 0) # (First(netloc, {"]"}) # 0),
         scheme |-> scheme,
         netloc |-> netloc,
         hostname |-> LowerText(hostname)]

\* WebRequestTool.validate: what it returns or raises.
RequestErrors ==
    {"ValueError: URL is required",
     "ValueError: Invalid URL: Invalid IPv6 URL",
     "ValueError: Invalid URL: URL must use http or https scheme",
     "ValueError: Invalid URL: Can only request URLs in lab network (10.0.0.0/24)"}
WebRequestTool_validate(kwargs) ==
    IF ~kwargs.given \/ kwargs.text = <<>>
    THEN "ValueError: URL is required"
    ELSE LET parsed == urlparse(kwargs.text)
         IN  IF parsed.raises
             THEN "ValueError: Invalid URL: Invalid IPv6 URL"
             ELSE IF parsed.scheme \notin {<<"h", "t", "t", "p">>, <<"h", "t", "t", "p", "s">>}
             THEN "ValueError: Invalid URL: URL must use http or https scheme"
             ELSE IF parsed.hostname # <<>> /\ ~StartsWith(parsed.hostname, <<"1", "0", ".", "0", ".", "0", ".">>)
             THEN "ValueError: Invalid URL: Can only request URLs in lab network (10.0.0.0/24)"
             ELSE "True"

\* The targets an agent may ask to scan: addresses, by their octets, and
\* texts that are no IPv4 address.
Quads ==
    {<<10, 0, 0, d>> : d \in {0, 1, 2, 5, 101, 103, 255}}
        \cup {<<10, 0, 1, 5>>, <<10, 1, 0, 5>>, <<11, 0, 0, 5>>, <<192, 168, 1, 1>>, <<8, 8, 8, 8>>}
OtherTargets ==
    {<<"t", "a", "r", "g", "e", "t", ".", "l", "a", "b">>,
     <<"1", "0", ".", "0", ".", "0">>,
     <<"1", "0", ".", "0", ".", "0", ".", "5", ".", "6">>,
     <<"1", "0", ".", "0", ".", "0", ".", "2", "5", "6">>,
     <<"1", "0", ".", "0", ".", "0", ".", "0", "5">>,
     <<" ", "1", "0", ".", "0", ".", "0", ".", "5">>,
     <<"1", "0", ".", "0", ".", "0", ".", "5", "/", "2", "4">>} \cup V6Texts
ScanCalls ==
    {Missing, Given(<<>>)} \cup {Given(Dotted(quad)) : quad \in Quads}
        \cup {Given(text) : text \in OtherTargets}

\* The URLs an agent may ask for.
Url(scheme, netloc, path) == scheme \o <<":", "/", "/">> \o netloc \o path
Hosts ==
    {Dotted(<<10, 0, 0, 5>>),
     Dotted(<<10, 0, 0, 103>>) \o <<":", "8", "0", "8", "0">>,
     Dotted(<<192, 168, 1, 1>>),
     Dotted(<<10, 0, 1, 5>>),
     <<"e", "v", "i", "l", ".", "c", "o", "m">>,
     <<"1", "0", ".", "0", ".", "0", ".", "e", "v", "i", "l", ".", "c", "o", "m">>,
     Dotted(<<10, 0, 0, 5>>) \o <<"@">> \o <<"e", "v", "i", "l", ".", "c", "o", "m">>,
     <<"[", "e", "v", "i", "l">>,
     <<>>}
Urls ==
    {Url(scheme, netloc, <<"/", "a", "d", "m", "i", "n">>) : scheme \in {<<"h", "t", "t", "p">>, <<"h", "t", "t", "p", "s">>, <<"H", "T", "T", "P">>, <<"f", "t", "p">>}, netloc \in Hosts}
        \cup {Dotted(<<10, 0, 0, 5>>) \o <<"/", "a", "d", "m", "i", "n">>}
RequestCalls == {Missing, Given(<<>>)} \cup {Given(url) : url \in Urls}

\* An agent's tool call: validate is called with the arguments, and what it
\* returns or raises is the outcome.
scan(p) ==
    /\ pc[p] \in {"idle", "done"}
    /\ \E kwargs \in ScanCalls :
          /\ cmd' = [cmd EXCEPT ![p] = [name |-> "port_scanner", arg |-> kwargs]]
          /\ outcome' = [outcome EXCEPT ![p] = PortScannerTool_validate(kwargs)]
    /\ pc' = [pc EXCEPT ![p] = "done"]
    /\ UNCHANGED <<disk, orphan, log, data, results, history>>

request(p) ==
    /\ pc[p] \in {"idle", "done"}
    /\ \E kwargs \in RequestCalls :
          /\ cmd' = [cmd EXCEPT ![p] = [name |-> "web_request", arg |-> kwargs]]
          /\ outcome' = [outcome EXCEPT ![p] = WebRequestTool_validate(kwargs)]
    /\ pc' = [pc EXCEPT ![p] = "done"]
    /\ UNCHANGED <<disk, orphan, log, data, results, history>>

NextTools == \E p \in Procs : scan(p) \/ request(p)

SpecTools == Init /\ [][NextTools]_vars

\* ------------------------------------------------------------------ claims
Stored == load_or_create(disk)
Readable == disk.file = "written"
ResetStep == \E p \in Procs : pc[p] = "unlink" /\ pc'[p] = "done" /\ disk' = FileAbsent
AllEnded == \A p \in Procs : pc[p] \in {"idle", "done"}
\* Process p leaves LabVerifier.verify with results that are a VerificationResult.
VerifyReturns(p) ==
    /\ pc[p] = "verify"
    /\ pc'[p] # "verify"
    /\ results'[p].kind # "none"
    /\ results'[p].typed
\* Process p's save() writes to the file it opened, and nobody else has
\* written to it since.
SoleDump(p) ==
    /\ pc[p] = "save"
    /\ pc'[p] = "done"
    /\ outcome'[p] \in {"started", "completed"}
    /\ p \notin orphan
    /\ disk.file = "truncated"

\* C1: in every record the file holds, every completed lab is a key of
\* attempts and every attempt count is at least 1, whatever the processes
\* (start, verify, hint, reset, killed or not) have done.
C1_CompletedLabsWereAttempted ==
    Readable =>
        /\ \A i \in 1..Len(Stored.completed_labs) :
              Stored.completed_labs[i] \in DOMAIN Stored.attempts
        /\ \A lab_id \in DOMAIN Stored.attempts : Stored.attempts[lab_id] >= 1

C1_Witness ==
    /\ Readable
    /\ Stored.completed_labs = <<"L1">>
    /\ Stored.attempts = Put(EmptyMap, "L1", 2)
    /\ \E p \in Procs : outcome[p] = "reset"

\* C2: when every command has ended, the record in the file counts every
\* start_lab call that returned and holds every score a complete_lab call
\* that returned has awarded.
C2_NoUpdateLost ==
    (AllEnded /\ Readable) =>
        /\ Total(Stored.attempts) >= started
        /\ Stored.score >= awarded

\* C3: no step but a reset lowers the score the file holds.
C3_ScoreNeverDecreases ==
    [][ResetStep \/ last'.score >= last.score]_vars

\* C4: no step but a reset lowers a lab's attempt count in the file, and a
\* start_lab call that returns has raised its lab's count by exactly 1.
C4_AttemptsOnlyGrow ==
    [][/\ ResetStep \/ \A lab_id \in Catalog :
              Get(last'.attempts, lab_id, 0) >= Get(last.attempts, lab_id, 0)
       /\ \A p \in Procs :
              (pc[p] = "save" /\ outcome'[p] = "started" /\ p \notin orphan
                  /\ disk'.file = "written") =>
              Get(last'.attempts, cmd[p].arg, 0) = Get(last.attempts, cmd[p].arg, 0) + 1]_vars

\* C5: a verify whose result scores s >= 70 completes the active lab L: the
\* session then has L completed, s more score, no active lab and the same
\* attempts, and it is that session save() writes.
C5_PassingVerifyCompletes ==
    [][\A p \in Procs :
        /\ (VerifyReturns(p) /\ results'[p].score >= 70) =>
              /\ pc'[p] = "save"
              /\ Contains(data'[p].completed_labs, data[p].current_lab)
              /\ data'[p].score = data[p].score + results'[p].score
              /\ data'[p].current_lab = None
              /\ data'[p].attempts = data[p].attempts
        /\ (SoleDump(p) /\ outcome'[p] = "completed") =>
              disk' = FileHolding(data[p])]_vars

C5_Witness ==
    \E p \in Procs :
        /\ outcome[p] = "completed"
        /\ results[p].score = 85
        /\ Readable
        /\ Stored.completed_labs = <<"L1">>
        /\ Stored.score = 85
        /\ Stored.current_lab = None
        /\ Stored.attempts = Put(EmptyMap, "L1", 1)

Restarted ==
    [NewSession EXCEPT !.current_lab = "L1", !.completed_labs = <<"L1">>,
                       !.attempts = Put(EmptyMap, "L1", 2), !.score = 85,
                       !.lab_start_time = Stamp]
Verify40(p) ==
    /\ VerifyReturns(p)
    /\ results'[p].score = 40
    /\ data[p] = Restarted
    /\ disk = FileHolding(Restarted)

\* C7 as claimed: in the scenario the verify scoring 40 completes L1 again:
\* 40 is added to the score and the active lab is cleared.
C7_Verify40Awards ==
    [][\A p \in Procs :
        Verify40(p) =>
            /\ pc'[p] = "save"
            /\ data'[p] = [Restarted EXCEPT !.score = 125, !.current_lab = None]]_vars

\* C7 amended: in the scenario the verify scoring 40 writes nothing: L1 stays
\* completed, the score stays 85, L1 stays active with 2 attempts.
C7_Verify40ChangesNothing ==
    [][\A p \in Procs :
        Verify40(p) =>
            /\ outcome'[p] = "retry"
            /\ disk' = FileHolding(Restarted)
            /\ last' = last]_vars

C7_Witness ==
    \E p \in Procs :
        /\ outcome[p] = "retry"
        /\ results[p].kind = "payload"
        /\ results[p].score = 40
        /\ disk = FileHolding(Restarted)

\* C8: complete_lab applied twice for the active lab of any session a
\* verify holds lists the lab once, adds the score both times and leaves no
\* active lab each time; and no record in the file lists a lab twice.
C8_CompleteTwice ==
    /\ \A p \in Procs : \A score \in PayloadScores :
          pc[p] = "verify" =>
              LET d == data[p]
                  lab_id == d.current_lab
                  once == complete_lab(d, lab_id, score)
                  twice == complete_lab(once, lab_id, score)
              IN  /\ Count(once.completed_labs, lab_id) = 1
                  /\ twice.completed_labs = once.completed_labs
                  /\ once.score = d.score + score
                  /\ twice.score = d.score + 2 * score
                  /\ once.current_lab = None
                  /\ twice.current_lab = None
    /\ Readable => \A lab_id \in Catalog : Count(Stored.completed_labs, lab_id) <= 1

C8_Witness ==
    /\ Readable
    /\ Stored.completed_labs = <<"L1">>
    /\ Stored.score = 170
    /\ awarded = 170
    /\ Stored.current_lab = None

\* C9: start of a lab of the catalog is never refused, whatever the record
\* holds, and start_lab makes the lab active and adds 1 to its attempts (1
\* if it had none), leaving the other counts, the completed labs and the
\* score as they were.
C9_StartAlwaysStarts ==
    /\ [][\A p \in Procs : \A lab_id \in Catalog :
            (cmd_start(p, lab_id) /\ ~LoadRaises(disk)) =>
                /\ pc'[p] = "start_lab"
                /\ cmd'[p].arg = lab_id
                /\ data'[p] = load_or_create(disk)]_vars
    /\ [][\A p \in Procs :
            (pc[p] = "start_lab" /\ pc'[p] = "save") =>
                LET d == data[p]
                    e == data'[p]
                    lab_id == cmd[p].arg
                IN  /\ e.current_lab = lab_id
                    /\ DOMAIN e.attempts = DOMAIN d.attempts \cup {lab_id}
                    /\ e.attempts[lab_id] = Get(d.attempts, lab_id, 0) + 1
                    /\ \A other \in DOMAIN d.attempts \ {lab_id} :
                          e.attempts[other] = d.attempts[other]
                    /\ e.completed_labs = d.completed_labs
                    /\ e.score = d.score]_vars

C9_Witness ==
    \E p \in Procs :
        /\ pc[p] = "save"
        /\ cmd[p] = [name |-> "start", arg |-> "L1"]
        /\ data[p].completed_labs = <<"L1">>
        /\ data[p].attempts = Put(EmptyMap, "L1", 2)
        /\ data[p].current_lab = "L1"
        /\ data[p].score = 85

\* C10: in one call sequence, save() has put the whole session in the file
\* when start_lab or complete_lab returns, so the next reader loads exactly
\* that session; and a process killed outside save() leaves a file that
\* loads, holding the last record saved.
C10_SavedBeforeReturn ==
    /\ [][\A p \in Procs :
            (pc[p] = "save" /\ pc'[p] = "done" /\ outcome'[p] \in {"started", "completed"}) =>
                /\ disk' = FileHolding(data[p])
                /\ ~LoadRaises(disk')
                /\ load_or_create(disk') = data[p]]_vars
    /\ [][\A p \in Procs :
            (pc[p] \notin {"idle", "done", "save"} /\ pc'[p] = "done"
                /\ outcome'[p] = "killed") =>
                /\ ~LoadRaises(disk')
                /\ load_or_create(disk') = last']_vars

C10_Witness ==
    \E p \in Procs :
        /\ outcome[p] = "killed"
        /\ Readable
        /\ Stored.current_lab = "L1"
        /\ Stored.attempts = Put(EmptyMap, "L1", 1)

\* Process p leaves LabVerifier.verify with results of one of these kinds.
VerifyCameTo(p, kinds) ==
    /\ pc[p] = "verify"
    /\ pc'[p] # "verify"
    /\ results'[p].kind \in kinds

\* C11: a lab without verify.py gets score 0, no objectives met or failed
\* and the note that no automated verification is available, and the
\* command asks to retry; no record, in the file or in a process, lists
\* such a lab as completed, and a record with a score has a completed lab.
C11_NoScriptNeverPasses ==
    /\ \A p \in Procs :
          results[p].kind = "noscript" =>
              /\ results[p].score = 0
              /\ results[p].objectives_met = <<>>
              /\ results[p].objectives_failed = <<>>
              /\ results[p].feedback = <<"No automated verification available">>
              /\ outcome[p] = "retry"
    /\ \A lab_id \in Catalog \ ScriptLabs :
          /\ Readable => ~Contains(Stored.completed_labs, lab_id)
          /\ \A p \in Procs : ~Contains(data[p].completed_labs, lab_id)
    /\ (Readable /\ Stored.score > 0) => Stored.completed_labs # <<>>

C11_Witness ==
    \E p \in Procs :
        /\ results[p].kind = "noscript"
        /\ outcome[p] = "retry"
        /\ Readable
        /\ Stored.current_lab = "L2"
        /\ Stored.attempts = Put(EmptyMap, "L2", 2)
        /\ Stored.completed_labs = <<>>

\* C12: a verify.py that exits non-zero, or exits 0 with output that is not
\* the structured payload (not JSON, not an object, fields missing, fields
\* of the wrong type) gives results with score 0, no objectives met or
\* failed and a feedback entry, and the command does not complete the lab.
C12_MalformedRunScoresZero ==
    [][\A p \in Procs :
        VerifyCameTo(p, {"nonzero", "badjson", "notobject", "partial", "mistyped"}) =>
            /\ results'[p].typed
            /\ results'[p].score = 0
            /\ results'[p].objectives_met = <<>>
            /\ results'[p].objectives_failed = <<>>
            /\ Len(results'[p].feedback) >= 1
            /\ pc'[p] # "save"]_vars

\* C13: the results verify returns have a numeric score in 0..100, and what
\* a passing verify adds to the session's score is in 70..100.
C13_ScoreInRange ==
    [][\A p \in Procs :
        VerifyCameTo(p, {"timeout", "nonzero", "badjson", "notobject",
                         "partial", "mistyped", "payload"}) =>
            /\ results'[p].typed
            /\ results'[p].score \in 0..100
            /\ pc'[p] = "save" => (data'[p].score - data[p].score) \in 70..100]_vars

\* C14: a verify.py that does not exit within 30 seconds does not keep
\* verify from returning; the results then have score 0 and one feedback
\* entry, the timeout's, which is neither the entry of a non-zero exit nor
\* that of a parse error, and the command asks to retry.
C14_TimeoutReturns ==
    /\ \A p \in Procs : (pc[p] = "verify") ~> (pc[p] # "verify")
    /\ [][\A p \in Procs :
            VerifyCameTo(p, {"timeout"}) =>
                /\ results'[p].score = 0
                /\ results'[p].feedback = <<TimeoutText>>
                /\ outcome'[p] = "retry"
                /\ \A run \in ScriptRuns \cup OddRuns :
                      run.kind \in {"nonzero", "badjson", "notobject"} =>
                          run.feedback # results'[p].feedback]_vars

C14_Witness ==
    \E p \in Procs :
        /\ outcome[p] = "retry"
        /\ results[p].kind = "timeout"
        /\ results[p].feedback = <<TimeoutText>>
        /\ results[p].score = 0
        /\ Readable
        /\ Stored.attempts = Put(EmptyMap, "L1", 2)

\* C15: with no lab.json behind the identifier, start ends with "not found"
\* and leaves the record file as it is; verify of a record whose active lab
\* has lost its lab.json ends the same way, with no verifier run and
\* nothing written, and hint ends with "no hints".
C15_MissingLabStops ==
    [][\A p \in Procs :
        ~LoadRaises(disk) =>
            /\ cmd_start(p, "L0") =>
                  /\ pc'[p] = "done"
                  /\ outcome'[p] = "not_found"
                  /\ disk' = disk
            /\ (load_or_create(disk).current_lab = "L0" /\ cmd_verify(p)) =>
                  /\ pc'[p] = "done"
                  /\ outcome'[p] = "not_found"
                  /\ results'[p] = NoResults
                  /\ disk' = disk
            /\ (load_or_create(disk).current_lab = "L0" /\ cmd_hint(p)) =>
                  /\ pc'[p] = "done"
                  /\ outcome'[p] = "no_hints"
                  /\ disk' = disk]_vars

C15_Witness ==
    \E p, q \in Procs :
        /\ outcome[p] = "not_found"
        /\ outcome[q] = "no_hints"
        /\ disk = FileHolding(GoneRecord)

\* C16: when the write of the record fails in start or in a passing verify,
\* the command ends with the exception alone: it has not reported the lab
\* as started or completed, and it has not ended as a failed verification.
C16_FailedWriteIsNotReported ==
    [][\A p \in Procs :
        save_raises(p) =>
            /\ disk'.file # "written"
            /\ outcome'[p] = "traceback"]_vars

IsPrefix(s, t) == Len(s) <= Len(t) /\ SubSeq(t, 1, Len(s)) = s
Agents == {"red", "blue"}
Instruction(agent) == LogLine(AgentTag(agent), "instruction")
Responses(agent) ==
    {LogLine(AgentTag(agent) \o "_RESPONSE", reply) : reply \in {"reply", "Error communicating"}}
\* Process p leaves send_to_red_agent or send_to_blue_agent.
ChatReturns(p) ==
    /\ pc[p] = "chat"
    /\ pc'[p] = "done"
    /\ outcome'[p] \in {"chatted", "chat_error"}

\* C17: a chat with red or blue is taken up whatever the record holds (no
\* record, no active lab, an active lab, completed labs), and neither of
\* its steps changes the record file; all it changes is the log, which
\* grows.
C17_ChatLeavesRecordAlone ==
    [][\A p \in Procs :
        /\ (cmd_chat(p) /\ ~LoadRaises(disk) /\ outcome'[p] # "unknown_agent") =>
              /\ pc'[p] = "chat"
              /\ cmd'[p].arg \in Agents
              /\ data'[p] = load_or_create(disk)
              /\ disk' = disk
              /\ last' = last
              /\ IsPrefix(log, log')
        /\ ChatReturns(p) =>
              /\ disk' = disk
              /\ last' = last
              /\ IsPrefix(log, log')]_vars

C17_Witness ==
    \E p \in Procs :
        /\ outcome[p] = "chatted"
        /\ Readable
        /\ Stored.current_lab = "L2"
        /\ Stored.completed_labs = <<"L1">>
        /\ Stored.score = 85
        /\ Len(log) = 2

\* C18: every step leaves the entries the log has as they are, in place;
\* a chat with red or blue appends the agent's instruction entry when it is
\* taken up and the agent's response entry when the reply is in, the
\* instruction entry standing before it, whatever the record holds.
C18_LogAppendOnly ==
    /\ [][IsPrefix(log, log')]_vars
    /\ [][\A p \in Procs :
            /\ (pc[p] \in {"idle", "done"} /\ pc'[p] = "chat") =>
                  /\ cmd'[p].arg \in Agents
                  /\ log' = Append(log, [tag |-> IF cmd'[p].arg = "red" THEN "RED" ELSE "BLUE",
                                         message |-> "instruction"])
            /\ ChatReturns(p) =>
                  /\ Len(log') = Len(log) + 1
                  /\ log'[Len(log')].tag =
                        IF cmd[p].arg = "red" THEN "RED_RESPONSE" ELSE "BLUE_RESPONSE"
                  /\ \E i \in 1..Len(log) :
                        log[i] = [tag |-> IF cmd[p].arg = "red" THEN "RED" ELSE "BLUE",
                                  message |-> "instruction"]
            /\ (pc'[p] # pc[p] /\ pc[p] # "chat" /\ pc'[p] # "chat") =>
                  log' = log]_vars

C18_Witness ==
    \E p \in Procs :
        /\ outcome[p] = "reset"
        /\ disk = FileAbsent
        /\ log = <<LogLine("BLUE", "instruction"), LogLine("BLUE_RESPONSE", "reply"),
                   LogLine("RED", "instruction"), LogLine("RED_RESPONSE", "Error communicating")>>

C20_ResetDiscards ==
    /\ [](\A p \in Procs :
            (pc[p] \in {"idle", "done"} /\ Quiet(p)) =>
                ENABLED (cmd_reset(p) /\ pc'[p] = "unlink"))
    /\ [][\A p \in Procs :
            /\ (pc[p] = "unlink" /\ pc'[p] = "done" /\ outcome'[p] = "reset") =>
                  /\ ~LoadRaises(disk')
                  /\ load_or_create(disk') = NewSession
                  /\ log' = log
            /\ (cmd_reset(p) /\ outcome'[p] = "cancelled") =>
                  /\ disk' = disk
                  /\ log' = log]_vars

\* C21: once a reset has returned, the record file holds no more starts and
\* no more score than the start_lab and complete_lab calls that have
\* returned since the reset account for: nothing of the discarded record
\* comes back.
C21_ResetIsFinal ==
    Readable =>
        /\ Total(Stored.attempts) <= started
        /\ Stored.score <= awarded

\* C22: a hint asked for while a lab with k >= 1 hints is active after n >= 1
\* starts is the hint at index n - 1 while n <= k and at index k - 1 for
\* every n > k, an index within 0..k-1, and never a failure; with a lab
\* without hints active the command says there is none.
C22_HintClamp ==
    [][\A p \in Procs :
          (cmd_hint(p) /\ ~LoadRaises(disk) /\ load_or_create(disk).current_lab \in Catalog) =>
              LET d == load_or_create(disk)
                  k == HintCount(d.current_lab)
                  n == Get(d.attempts, d.current_lab, 1)
                  index == IF n <= k THEN n - 1 ELSE k - 1
              IN  /\ (k >= 1 /\ n >= 1) =>
                        /\ index \in 0..(k - 1)
                        /\ outcome'[p] = "Hint #" \o ToString(index + 1)
                  /\ k = 0 => outcome'[p] = "no_hints"]_vars
\* A hint asked for at the third attempt of a lab with two hints.
C22_Witness ==
    /\ Readable
    /\ Stored.current_lab = "L1"
    /\ HintCount("L1") = 2
    /\ Get(Stored.attempts, "L1", 1) = 3
    /\ \E p \in Procs : pc[p] = "done" /\ outcome[p] = "Hint #2"

\* The read-only commands.
Query(p) ==
    \/ cmd_hint(p)
    \/ cmd_status(p)
    \/ cmd_list(p)
    \/ cmd_monitor(p)
    \/ cmd_grade(p)
    \/ cmd_stats(p)
\* C23: hint, status, list, monitor, grade and stats are queries: in every
\* state, whatever they print, they leave the record file as it is, its
\* absence included, and the interaction log as it is.
C23_QueriesWriteNothing ==
    [][\A p \in Procs : Query(p) => (disk' = disk /\ orphan' = orphan /\ log' = log)]_vars
\* A student without a record has been monitored and has asked for a hint,
\* and has no record still.
C23_Witness ==
    /\ disk = FileAbsent
    /\ \E p, q \in Procs : outcome[p] = "monitored" /\ outcome[q] = "no_active_hint"

\* C24: a chat with red or blue whose model call fails (model not loaded,
\* endpoint unreachable) ends as one whose call succeeded: the command
\* returns, never with a traceback, its response is the error text, and
\* that response is appended to the log after the instruction.
C24_ChatErrorIsInline ==
    [][\A p \in Procs :
          (pc[p] = "chat" /\ pc'[p] # "chat") =>
              /\ cmd[p].arg \in Agents
              /\ pc'[p] = "done"
              /\ outcome'[p] \in {"chatted", "chat_error"}
              /\ \E entry \in Responses(cmd[p].arg) :
                    /\ log' = Append(log, entry)
                    /\ (entry.message = "Error communicating") <=> (outcome'[p] = "chat_error")
              /\ \E i \in 1..Len(log) : log[i] = Instruction(cmd[p].arg)]_vars
\* A chat with red whose call failed has returned, and the log holds the
\* instruction and the error text.
C24_Witness ==
    /\ \E p \in Procs : pc[p] = "done" /\ outcome[p] = "chat_error"
    /\ log = <<LogLine("RED", "instruction"), LogLine("RED_RESPONSE", "Error communicating")>>

\* C25: reading a student's session never fails: in every state the record
\* file is one that _load_or_create reads without raising, the new session
\* for no file and the stored record for a file, whatever writes by other
\* processes are under way.
C25_GetNeverFails ==
    /\ ~LoadRaises(disk)
    /\ disk.file = "absent" => load_or_create(disk) = NewSession
    /\ disk.file = "written" => load_or_create(disk) = Stored

\* C26: the session a process holds, whatever starts and completions made
\* it, is read back from its dump equal in every field (student id,
\* creation time, active lab, completed list, attempts, score, start time),
\* and so is the record the file holds.
C26_RoundTrip ==
    /\ \A p \in Procs : JsonLoad(JsonDump(data[p])) = data[p]
    /\ Readable => (JsonLoad(JsonDump(Stored)) = Stored /\ Stored.student_id = StudentId)
\* A record with two labs attempted, one of them completed, the other
\* active, and a score has been saved by a start that has returned.
C26_Witness ==
    /\ Readable
    /\ Stored.lab_start_time = Stamp
    /\ Stored.completed_labs # <<>>
    /\ Stored.score > 0
    /\ DOMAIN Stored.attempts = Catalog
    /\ Stored.current_lab \in Catalog
    /\ \E p \in Procs : pc[p] = "done" /\ outcome[p] = "started"

\* C27, as stated: in every record the file holds, the active lab is none
\* or a lab that is not in the completed list.
C27_ActiveNotCompleted ==
    Readable =>
        \/ Stored.current_lab = None
        \/ ~Contains(Stored.completed_labs, Stored.current_lab)
\* C27, amended: a completion clears the active lab, so a lab is active and
\* in the completed list only when it was started again after it was
\* completed: its attempt count is then 2 or more.
C27_ActiveCompletedWasRestarted ==
    /\ (Readable /\ Stored.current_lab # None
                 /\ Contains(Stored.completed_labs, Stored.current_lab)) =>
          Get(Stored.attempts, Stored.current_lab, 0) >= 2
    /\ \A p \in Procs :
          (pc[p] = "save" /\ cmd[p].name = "verify") => data[p].current_lab = None
\* L1 was completed, started again, and is active and completed at once.
C27_Witness ==
    /\ Readable
    /\ Stored.current_lab = "L1"
    /\ Contains(Stored.completed_labs, "L1")
    /\ Get(Stored.attempts, "L1", 0) = 2
    /\ \E p \in Procs : outcome[p] = "started"

\* C28: an unknown mode, an unknown command or a command short of its
\* argument prints the usage line and returns; no handler is entered, and
\* the record file and the log are as they were.
C28_UsageOnly ==
    \A p \in Procs :
        pc[p] \in {"idle", "done"} =>
            ~ ENABLED (/\ usage(p)
                       /\ ~ (/\ pc'[p] = "done"
                             /\ outcome'[p] = "usage"
                             /\ disk' = disk
                             /\ log' = log))

\* The sessions in being: the one in the file and those the processes hold.
Sessions == {data[p] : p \in Procs} \cup (IF Readable THEN {Stored} ELSE {})
\* C29: in every session, in the file or in a process, an active lab is a
\* key of attempts with a count of 1 or more, so cmd_hint never falls back
\* on its default attempt number and its index is never negative.
C29_ActiveLabWasStarted ==
    \A d \in Sessions :
        d.current_lab # None =>
            /\ d.current_lab \in DOMAIN d.attempts
            /\ d.attempts[d.current_lab] >= 1
            /\ HintCount(d.current_lab) >= 1 =>
                  hint_index(d.attempts[d.current_lab], HintCount(d.current_lab)) >= 0
\* L1 is active after one start and its first hint has been shown.
C29_Witness ==
    /\ Readable
    /\ Stored.current_lab = "L1"
    /\ Stored.attempts["L1"] = 1
    /\ \E p \in Procs : pc[p] = "done" /\ outcome[p] = "Hint #1"

\* C30: a verify by a process whose loaded session has no active lab
\* returns at once with "No active lab": the verifier is not entered, no
\* results are produced, and the record file, with its completed labs and
\* score, is not written.
C30_IdleVerifyIsNoOp ==
    [][\A p \in Procs :
          (cmd_verify(p) /\ ~LoadRaises(disk) /\ load_or_create(disk).current_lab = None) =>
              /\ pc'[p] = "done"
              /\ outcome'[p] = "no_active"
              /\ results'[p] = NoResults
              /\ disk' = disk
              /\ orphan' = orphan
              /\ history' = history
              /\ log' = log]_vars
\* A verify after the completion of L1, with no lab active, has returned.
C30_Witness ==
    /\ Readable
    /\ Stored.current_lab = None
    /\ Stored.completed_labs = <<"L1">>
    /\ Stored.score = 85
    /\ \E p \in Procs : pc[p] = "done" /\ outcome[p] = "no_active" /\ results[p] = NoResults

\* C31: a passing verify completes the lab that is active in the session
\* the process loaded, whatever "lab_id" the script's payload carries: the
\* completed list it goes on to save is the loaded one with that lab added
\* if it was not there, and that is the list its save() writes.
C31_CompletesTheActiveLab ==
    [][\A p \in Procs :
          /\ (VerifyReturns(p) /\ pc'[p] = "save") =>
                /\ data[p].current_lab \in Catalog
                /\ data'[p].completed_labs =
                      IF Contains(data[p].completed_labs, data[p].current_lab)
                      THEN data[p].completed_labs
                      ELSE Append(data[p].completed_labs, data[p].current_lab)
          /\ (SoleDump(p) /\ outcome'[p] = "completed") =>
                load_or_create(disk').completed_labs = data[p].completed_labs]_vars
\* A verify of L1 whose payload named L2 has completed L1 and nothing else.
C31_Witness ==
    /\ Readable
    /\ Stored.completed_labs = <<"L1">>
    /\ \E p \in Procs :
          /\ pc[p] = "done"
          /\ outcome[p] = "completed"
          /\ results[p].lab_id = "L2"
          /\ results[p].score = 85

\* C32: a chat with an agent name that is neither red nor blue in any case
\* of its letters prints "Unknown agent" and returns: the model is not
\* called, the log gets no entry and the record file is not touched; red
\* and blue in any case are taken up.
C32_UnknownAgentRejected ==
    [][\A p \in Procs : \A agent \in AgentNames :
          (chat_with(p, agent) /\ ~LoadRaises(disk)) =>
              IF agent \in {"red", "RED", "blue", "Blue"}
              THEN /\ pc'[p] = "chat"
                   /\ Len(log') = Len(log) + 1
              ELSE /\ pc'[p] = "done"
                   /\ outcome'[p] = "unknown_agent"
                   /\ log' = log
                   /\ disk' = disk
                   /\ orphan' = orphan
                   /\ history' = history]_vars
\* A chat with an unknown agent has returned, after a lab was started and
\* before anything was logged.
C32_Witness ==
    /\ Readable
    /\ Stored.current_lab \in Catalog
    /\ log = <<>>
    /\ \E p \in Procs : pc[p] = "done" /\ outcome[p] = "unknown_agent"

C34_RequestHostInLab ==
    \A p \in Procs :
        (cmd[p].name = "web_request" /\ outcome[p] = "True") =>
            /\ urlparse(cmd[p].arg.text).scheme \in {<<"h", "t", "t", "p">>, <<"h", "t", "t", "p", "s">>}
            /\ InLabNetwork(ip_address(urlparse(cmd[p].arg.text).hostname))
====
